---- MODULE Spec2Model ----
(***************************************************************************)
(* Model of the action dispatch and safety-gating layer of agent-hub       *)
(* (src/agent_brain.py): the transport router call_agent_exec with its SSH *)
(* fallback, the n8n workflow-API client call_n8n with its write gate, the *)
(* direct "ssh: run" entry of main and the dispatch loop of main.          *)
(*                                                                         *)
(* Python values are written as string tokens so that values of different  *)
(* Python types stay comparable: "True", "False", "None", "i:<n>" for an   *)
(* int, "s:<text>" for a str, and "<absent>" for a key a dict lacks.       *)
(***************************************************************************)
EXTENDS Integers, Sequences, FiniteSets, TLC

VARIABLES
    fx,        \* record of the pure-function application under study
    xr,        \* record of the call_agent_exec invocation under study
    nr,        \* record of the call_n8n invocation under study
    pc,        \* position of agent_brain.main
    env,       \* process environment read by main and by the transports
    entry,     \* the parsed task text: a direct invocation or a plan
    hv2,       \* main's local handv2_index (names of the manifests in use)
    plan,      \* the actions of the plan returned by the planner
    acts,      \* base_actions of the dispatch loop
    idx,       \* number of base_actions already processed
    results,   \* the results list
    issue_found,
    calls,     \* every request sent to a transport, in order
    report     \* the final report (ok, exit_code) and the exit status

vars == <<fx, xr, nr, pc, env, entry, hv2, plan, acts, idx, results, issue_found, calls, report>>

----------------------------------------------------------------------------
(* Python value tokens *)

Absent  == "<absent>"
PyNone  == "None"
PyTrue  == "True"
PyFalse == "False"

\* bool(v) for the tokens the model uses; an absent key reads as None
Truthy(v) == v \notin {Absent, PyNone, PyFalse, "i:0", "s:"}

\* params.args: a dict (a function from its keys to tokens), or a truthy JSON
\* value that is not a dict (a list)
ArgsDict(d) == [kind |-> "dict", d |-> d]
NoArgs      == ArgsDict(<<>>)
ArgsList    == [kind |-> "list", d |-> <<>>]

\* the params of an "ssh: run" request; action "" stands for a missing action
Params(action, mode, args, confirm) ==
    [isdict |-> TRUE, action |-> action, mode |-> mode, args |-> args, confirm |-> confirm]

\* params=None
NoParams == [isdict |-> FALSE, action |-> "", mode |-> "", args |-> NoArgs, confirm |-> ""]

----------------------------------------------------------------------------
(* Names *)

ALLOWED_TASKS ==
    {"ssh: docker_status", "ssh: healthz", "ssh: backup_now", "ssh: caddy_logs",
     "ssh: list_actions", "ssh: restart_n8n", "ssh: run",
     "n8n: self_test", "n8n: workflows_get", "n8n: get_workflow",
     "n8n: list_workflows", "n8n: workflows_update",
     "n8n: workflows_update_dryrun", "n8n: workflows_get_dryrun",
     "n8n: executions_list", "ssh: compose_ps"}

DANGEROUS_TASKS == {"ssh: restart_n8n"}

\* the default of RECOVERY_SSH_ACTIONS
DefaultRecoveryActions == {"compose_up", "compose_restart", "compose_ps", "compose_logs"}

\* raw_action.startswith('ssh:') on the action names of the model
StartsWithSsh(a) == a \in {"ssh: restart_n8n", "ssh: healthz", "ssh: caddy_logs"}

\* raw_action.split(':', 1)[1].strip()
AfterSshPrefix(a) ==
    CASE a = "ssh: restart_n8n" -> "restart_n8n"
      [] a = "ssh: healthz"     -> "healthz"
      [] a = "ssh: caddy_logs"  -> "caddy_logs"
      [] OTHER                  -> a

\* f"ssh: {action}"
WithSshPrefix(a) ==
    CASE a = "restart_n8n" -> "ssh: restart_n8n"
      [] a = "healthz"     -> "ssh: healthz"
      [] a = "caddy_logs"  -> "ssh: caddy_logs"
      [] a = "compose_restart" -> "ssh: compose_restart"
      [] a = "compose_ps"  -> "ssh: compose_ps"
      [] OTHER             -> "ssh: ?"

\* an action name is dangerous with or without the "ssh:" prefix
DangerousName(a) == a \in DANGEROUS_TASKS \/ WithSshPrefix(a) \in DANGEROUS_TASKS

----------------------------------------------------------------------------
(* Responses: a raw response is a JSON value; a dict is a record whose     *)
(* fields hold tokens, Absent for a missing key.                           *)

RespDict(ok, action, stdout, stderr, text, exit_code, fb) ==
    [isdict |-> TRUE, ok |-> ok, action |-> action, stdout |-> stdout,
     stderr |-> stderr, text |-> text, exit_code |-> exit_code, code |-> Absent,
     _fallback |-> fb, _saved_to |-> Absent]

\* a JSON body that is not an object (a list, a number, a string)
NonDict ==
    [isdict |-> FALSE, ok |-> Absent, action |-> Absent, stdout |-> Absent,
     stderr |-> Absent, text |-> Absent, exit_code |-> Absent, code |-> Absent,
     _fallback |-> Absent, _saved_to |-> Absent]

\* {} : a dict without any key
EmptyDict == RespDict(Absent, Absent, Absent, Absent, Absent, Absent, Absent)

\* the JSON bodies a remote executor answers with
Bodies ==
    {RespDict(PyTrue, "s:ssh: run", "s:OK", "s:", "s:OK", "i:0", Absent),
     RespDict(PyFalse, "s:ssh: run", "s:", "s:boom", "s:boom", "i:1", Absent),
     RespDict(PyNone, Absent, "s:OK", Absent, Absent, Absent, Absent),
     EmptyDict,
     NonDict}

----------------------------------------------------------------------------
(* call_agent_exec and its SSH fallback *)

\* what the HTTP POST to the gateway can do
PrimaryOutcomes == {"ok", "http_non2xx", "empty_body", "malformed_json", "conn_error", "timeout"}

\* what the ssh subprocess can do
FallbackOutcomes == {"ssh_exception", "rc_nonzero_no_stdout", "json", "empty_stdout_rc0", "non_json"}

\* the text of the exception the try block of call_agent_exec ends with
ExText(po) ==
    CASE po = "http_non2xx"    -> "agent-exec http 500: err"
      [] po = "empty_body"     -> "agent-exec empty response body"
      [] po = "malformed_json" -> "Expecting value: line 1 column 1 (char 0)"
      [] po = "conn_error"     -> "[Errno 111] Connection refused"
      [] po = "timeout"        -> "timed out"
      [] OTHER                 -> ""

\* msg = f"agent-exec call failed: {ex}"
FailMsg(po) ==
    CASE po = "http_non2xx"    -> "s:agent-exec call failed: agent-exec http 500: err"
      [] po = "empty_body"     -> "s:agent-exec call failed: agent-exec empty response body"
      [] po = "malformed_json" -> "s:agent-exec call failed: Expecting value: line 1 column 1 (char 0)"
      [] po = "conn_error"     -> "s:agent-exec call failed: [Errno 111] Connection refused"
      [] po = "timeout"        -> "s:agent-exec call failed: timed out"
      [] OTHER                 -> "s:agent-exec call failed: "

\* the set RECOVERY_SSH_ACTIONS parses to
_ssh_fallback_actions(e) == e.recovery

\* _call_handv2_via_ssh returning the remote JSON object as it came
_call_handv2_via_ssh_unmarked(fo, fbody) ==
    CASE fo = "json" /\ fbody.isdict -> fbody
      [] fo = "empty_stdout_rc0"     -> EmptyDict
      [] OTHER -> RespDict(PyFalse, "s:ssh: run", "s:", "s:SSH fallback failed", "s:SSH fallback failed", "i:1", "s:ssh")

\* _call_handv2_via_ssh(params): every return path sets _fallback = "ssh"
_call_handv2_via_ssh(fo, fbody) ==
    CASE fo = "ssh_exception" ->
            RespDict(PyFalse, "s:ssh: run", "s:", "s:SSH fallback failed", "s:SSH fallback failed", "i:1", "s:ssh")
      [] fo = "rc_nonzero_no_stdout" ->
            RespDict(PyFalse, "s:ssh: run", "s:", "s:ssh exit_code=255", "s:ssh exit_code=255", "i:1", "s:ssh")
      [] fo = "json" /\ fbody.isdict ->
            [fbody EXCEPT !._fallback = "s:ssh"]
      [] fo = "empty_stdout_rc0" ->
            [EmptyDict EXCEPT !._fallback = "s:ssh"]
      [] OTHER ->
            RespDict(PyFalse, "s:ssh: run", "s:raw", "s:SSH fallback returned non-JSON",
                     "s:SSH fallback returned non-JSON", "i:1", "s:ssh")

\* the try block of call_agent_exec: one POST, then the status, body and JSON checks
PrimaryAttempt(po, body) ==
    IF po = "ok" THEN [k |-> "return", v |-> body, ex |-> ""]
    ELSE [k |-> "raise", v |-> NonDict, ex |-> ExText(po)]

\* str(params.get("action", "")).strip(): the action names of the model carry
\* surrounding whitespace only in these two forms
Strip(name) ==
    CASE name = " compose_ps " -> "compose_ps"
      [] name = " "            -> ""
      [] OTHER                 -> name

\* the fallback decision without the membership test
FallbackApplies_anyAction(task, params, e) ==
    /\ task = "ssh: run"
    /\ params.isdict
    /\ Strip(params.action) # ""

\* the fallback decision of the except block
FallbackApplies(task, params, e) ==
    /\ task = "ssh: run"
    /\ params.isdict
    /\ Strip(params.action) # ""
    /\ Strip(params.action) \in _ssh_fallback_actions(e)

\* call_agent_exec with the JSON decoding outside the try block
call_agent_exec_escaping(task, params, e, po, body, fo, fbody) ==
    IF po = "ok"
    THEN [k |-> "return", v |-> body, ex |-> "", primary |-> 1, fallback |-> 0]
    ELSE IF po = "malformed_json"
         THEN [k |-> "raise", v |-> NonDict, ex |-> ExText(po), primary |-> 1, fallback |-> 0]
         ELSE [k |-> "return",
               v |-> RespDict(PyFalse, "s:" \o task, "s:", FailMsg(po), FailMsg(po), "i:1", Absent),
               ex |-> "", primary |-> 1, fallback |-> 0]

\* call_agent_exec(url, task, chat_id, params): the outcome (a returned value or
\* an escaping exception) and the number of requests on each channel
call_agent_exec(task, params, e, po, body, fo, fbody) ==
    LET p == PrimaryAttempt(po, body) IN
    IF p.k = "return"
    THEN [k |-> "return", v |-> p.v, ex |-> "", primary |-> 1, fallback |-> 0]
    ELSE IF FallbackApplies(task, params, e)
         THEN [k |-> "return", v |-> _call_handv2_via_ssh(fo, fbody), ex |-> "",
               primary |-> 1, fallback |-> 1]
         ELSE [k |-> "return",
               v |-> RespDict(PyFalse, "s:" \o task, "s:", FailMsg(po), FailMsg(po), "i:1", Absent),
               ex |-> "", primary |-> 1, fallback |-> 0]

----------------------------------------------------------------------------
(* call_n8n: the workflow-API client and its write gate *)

\* the workflow ids of the model; "" stands for a missing params.workflow_id
Wids == {"w1", "w2"}

\* what one HTTP request to the workflow API can do; "error_no_text" is an
\* exception whose str() is empty (one raised without a message)
HttpOutcomes == {"2xx", "4xx", "conn_error", "error_no_text"}

\* params.workflow / params.data / params.file of an update
WorkflowArgs == {"absent", "object", "object_no_known_keys", "not_object", "file_ok", "file_unreadable"}

N8nFail(task, msg) == RespDict(PyFalse, "s:" \o task, "s:", "s:" \o msg, "s:" \o msg, "i:1", Absent)

N8nOk(task, txt) == RespDict(PyTrue, "s:" \o task, "s:" \o txt, "s:", "s:" \o txt, "i:0", Absent)

N8nOut(v, reqs) == [k |-> "return", v |-> v, ex |-> "", reqs |-> reqs]

N8nRaise(t, reqs) == [k |-> "raise", v |-> NonDict, ex |-> t, reqs |-> reqs]

_n8n_allowlist(e) == e.n8n_allow

_n8n_allow_write(e) == e.n8n_write

\* a request function that sends every request as a PUT
req_asPut(task, method, path, h) ==
    LET r == [method |-> "PUT", path |-> path] IN
    CASE h = "2xx" -> N8nOut(N8nOk(task, "{}"), <<r>>)
      [] h = "4xx" -> N8nOut(RespDict(PyFalse, "s:" \o task, "s:", "s:404 Not Found: {}", "s:{}", "i:1", Absent), <<r>>)
      [] h = "error_no_text" -> N8nRaise("", <<r>>)
      [] OTHER     -> N8nRaise("[Errno 111] Connection refused", <<r>>)

\* req(method, path): one request; a connection error escapes as an exception
req(task, method, path, h) ==
    LET r == [method |-> method, path |-> path] IN
    CASE h = "2xx" -> N8nOut(N8nOk(task, "{}"), <<r>>)
      [] h = "4xx" -> N8nOut(RespDict(PyFalse, "s:" \o task, "s:", "s:404 Not Found: {}", "s:{}", "i:1", Absent), <<r>>)
      [] h = "error_no_text" -> N8nRaise("", <<r>>)
      [] OTHER     -> N8nRaise("[Errno 111] Connection refused", <<r>>)

\* the wid / allow-list checks shared by the per-workflow tasks:
\* "" when they pass, else the message returned
WidCheck(wid, allow) ==
    IF wid = "" THEN "params.workflow_id required"
    ELSE IF allow # {} /\ wid \notin allow THEN "workflow_id not in allowlist: " \o wid
    ELSE ""

\* the loading and filtering of params.workflow: "" when a body is obtained
WorkflowCheck(wf) ==
    CASE wf = "file_unreadable" -> "failed to load params.file: [Errno 2] No such file"
      [] wf \in {"absent", "not_object"} -> "params.workflow (object) required"
      [] OTHER -> ""

\* "n8n: list_workflows": one GET per allow-listed id, in sorted order
RECURSIVE ListRequests(_, _, _)
ListRequests(task, ws, h) ==
    IF ws = {} THEN N8nOut(N8nOk(task, "list"), <<>>)
    ELSE LET w    == CHOOSE x \in ws : \A y \in ws : (x = "w1") \/ (y # "w1")
             one  == req(task, "GET", "/workflows/" \o w, h[w])
             rest == ListRequests(task, ws \ {w}, h)
         IN IF one.k = "raise" THEN one
            ELSE IF rest.k = "raise" THEN N8nRaise(rest.ex, one.reqs \o rest.reqs)
            ELSE IF one.v.ok = PyTrue /\ rest.v.ok = PyTrue
                 THEN N8nOut(N8nOk(task, "list"), one.reqs \o rest.reqs)
                 ELSE N8nOut(RespDict(PyFalse, "s:" \o task, "s:", "s:list", "s:list", "i:1", Absent),
                             one.reqs \o rest.reqs)

\* "n8n: workflows_update": the write gate, the checks and the PUT
Update(task, wid, wf, e, h) ==
    IF ~_n8n_allow_write(e) THEN N8nOut(N8nFail(task, "WRITE disabled (set N8N_ALLOW_WRITE=1)"), <<>>)
    ELSE IF WidCheck(wid, _n8n_allowlist(e)) # ""
         THEN N8nOut(N8nFail(task, WidCheck(wid, _n8n_allowlist(e))), <<>>)
    ELSE IF WorkflowCheck(wf) # "" THEN N8nOut(N8nFail(task, WorkflowCheck(wf)), <<>>)
    ELSE req(task, "PUT", "/workflows/" \o wid, h[wid])

\* call_n8n(task, params): wid is params.workflow_id, wf the workflow argument,
\* h the outcome of a request for each workflow id
call_n8n(task0, wid, wf, e, h) ==
    LET allow == _n8n_allowlist(e)
        task  == IF task0 = "n8n: get_workflow" THEN "n8n: workflows_get" ELSE task0
    IN
    IF ~e.n8n_key THEN N8nOut(N8nFail(task0, "N8N_API_KEY not set"), <<>>)
    ELSE CASE task0 = "n8n: self_test" -> req(task0, "GET", "/workflows?limit=1", h["w1"])
      [] task0 = "n8n: list_workflows" ->
            IF allow = {} THEN N8nOut(N8nFail(task0, "N8N_ALLOW_WORKFLOW_IDS is empty"), <<>>)
            ELSE ListRequests(task0, allow, h)
      [] task0 = "n8n: executions_list" ->
            IF WidCheck(wid, allow) # "" THEN N8nOut(N8nFail(task0, WidCheck(wid, allow)), <<>>)
            ELSE req(task0, "GET", "/executions?workflowId=" \o wid, h[wid])
      [] task0 = "n8n: workflows_get_dryrun" ->
            IF WidCheck(wid, allow) # "" THEN N8nOut(N8nFail(task0, WidCheck(wid, allow)), <<>>)
            ELSE LET r == req(task0, "GET", "/workflows/" \o wid, h[wid]) IN
                 IF r.k = "raise" \/ r.v.ok # PyTrue THEN r
                 ELSE N8nOut(N8nOk(task0, "get+dryrun ok (no write)"), r.reqs)
      [] task = "n8n: workflows_update_dryrun" ->
            IF WidCheck(wid, allow) # "" THEN N8nOut(N8nFail(task, WidCheck(wid, allow)), <<>>)
            ELSE IF WorkflowCheck(wf) # "" THEN N8nOut(N8nFail(task, WorkflowCheck(wf)), <<>>)
            ELSE N8nOut(N8nOk(task, "dry-run ok (no write)"), <<>>)
      [] task = "n8n: workflows_update" -> Update(task, wid, wf, e, h)
      [] task = "n8n: workflows_get" ->
            IF WidCheck(wid, allow) # "" THEN N8nOut(N8nFail(task, WidCheck(wid, allow)), <<>>)
            ELSE req(task, "GET", "/workflows/" \o wid, h[wid])
      [] OTHER -> N8nOut(N8nFail(task, "Unsupported n8n task: " \o task), <<>>)

----------------------------------------------------------------------------
(* Manifests and validate_handv2_args.  A manifest is identified by its    *)
(* name; its args_schema is the one the remote executor publishes for it.  *)

NoProp == [type |-> "", hasMin |-> FALSE, min |-> 0, hasMax |-> FALSE, max |-> 0,
           hasDefault |-> FALSE, default |-> Absent]

\* args_schema.properties[k] of the manifest of an action
PropSpec(name, k) ==
    CASE name \in {"compose_restart", "compose_ps"} /\ k = "project_dir" ->
            [NoProp EXCEPT !.type = "string", !.hasDefault = TRUE, !.default = "s:/opt/n8n"]
      [] name = "caddy_logs" /\ k = "lines" ->
            [NoProp EXCEPT !.type = "integer", !.hasMin = TRUE, !.min = 1,
                           !.hasMax = TRUE, !.max = 500]
      [] name = "caddy_logs" /\ k = "follow" ->
            [NoProp EXCEPT !.type = "boolean"]
      [] name = "compose_logs" /\ k = "project_dir" ->
            [NoProp EXCEPT !.type = "string", !.hasDefault = TRUE, !.default = "s:/opt/n8n"]
      [] name = "compose_logs" /\ k = "tail" ->
            [NoProp EXCEPT !.type = "integer", !.hasMin = TRUE, !.min = 1]
      [] name = "compose_logs" /\ k = "service" ->
            [NoProp EXCEPT !.type = "string"]
      [] OTHER -> NoProp

\* args_schema of the manifest of an action
ArgsSchema(name) ==
    CASE name \in {"compose_restart", "compose_ps"} ->
            [props |-> {"project_dir"}, required |-> {}, additional |-> FALSE]
      [] name = "caddy_logs" ->
            [props |-> {"lines", "follow"}, required |-> {"lines"}, additional |-> TRUE]
      [] name = "compose_logs" ->
            [props |-> {"project_dir", "tail", "service"},
             required |-> {"project_dir", "tail", "service"}, additional |-> FALSE]
      [] OTHER ->
            [props |-> {}, required |-> {}, additional |-> FALSE]

\* the order in which the names of a required list and the keys of a dict are
\* visited
KeyOrder == <<"project_dir", "tail", "service", "lines", "follow", "confirm", "x">>

\* isinstance(v, int): bool is a subclass of int
IsInt(v) == v \in {"i:0", "i:1", "i:500", "i:501", PyTrue, PyFalse}

IntVal(v) ==
    CASE v = "i:0" -> 0 [] v = "i:1" -> 1 [] v = "i:500" -> 500 [] v = "i:501" -> 501
      [] v = PyTrue -> 1 [] OTHER -> 0

IsStr(v) == v \in {"s:", "s:/opt/n8n", "s:TOK", "s:5"}

IsBool(v) == v \in {PyTrue, PyFalse}

\* f"{mn}" of a declared bound
IntStr(n) == CASE n = 1 -> "1" [] n = 500 -> "500" [] OTHER -> "0"

\* the check of one argument with bounds that exclude the minimum and the maximum
CheckArg_exclusive(name, k, v) ==
    LET spec == PropSpec(name, k) IN
    CASE spec.type = "integer" ->
            IF ~IsInt(v) THEN "arg '" \o k \o "' must be integer"
            ELSE IF spec.hasMin /\ IntVal(v) <= spec.min THEN "arg '" \o k \o "' must be >= " \o IntStr(spec.min)
            ELSE IF spec.hasMax /\ IntVal(v) >= spec.max THEN "arg '" \o k \o "' must be <= " \o IntStr(spec.max)
            ELSE ""
      [] spec.type = "string"  -> IF ~IsStr(v) THEN "arg '" \o k \o "' must be string" ELSE ""
      [] spec.type = "boolean" -> IF ~IsBool(v) THEN "arg '" \o k \o "' must be boolean" ELSE ""
      [] OTHER -> ""

\* the type and bounds check of one argument: "" when it passes
CheckArg(name, k, v) ==
    LET spec == PropSpec(name, k) IN
    CASE spec.type = "integer" ->
            IF ~IsInt(v) THEN "arg '" \o k \o "' must be integer"
            ELSE IF spec.hasMin /\ IntVal(v) < spec.min THEN "arg '" \o k \o "' must be >= " \o IntStr(spec.min)
            ELSE IF spec.hasMax /\ IntVal(v) > spec.max THEN "arg '" \o k \o "' must be <= " \o IntStr(spec.max)
            ELSE ""
      [] spec.type = "string"  -> IF ~IsStr(v) THEN "arg '" \o k \o "' must be string" ELSE ""
      [] spec.type = "boolean" -> IF ~IsBool(v) THEN "arg '" \o k \o "' must be boolean" ELSE ""
      [] OTHER -> ""

\* the first failing argument in key order, from position i on
RECURSIVE FirstArgError(_, _, _)
FirstArgError(name, d, i) ==
    IF i > Len(KeyOrder) THEN ""
    ELSE LET k == KeyOrder[i] IN
         IF k \in DOMAIN d /\ CheckArg(name, k, d[k]) # "" THEN CheckArg(name, k, d[k])
         ELSE FirstArgError(name, d, i + 1)

\* the first key of ks in key order
FirstKey(ks) == KeyOrder[CHOOSE i \in 1..Len(KeyOrder) :
                    KeyOrder[i] \in ks /\ \A j \in 1..(i - 1) : KeyOrder[j] \notin ks]

\* validate_handv2_args without the loop over the required names
validate_handv2_args_noRequired(action, args, manifests) ==
    IF args.kind # "dict" THEN "params.args must be an object (dict)"
    ELSE IF action \notin manifests THEN ""
    ELSE LET extra == DOMAIN args.d \ ArgsSchema(action).props
         IN IF ~ArgsSchema(action).additional /\ extra # {} THEN "unknown args: " \o FirstKey(extra)
            ELSE FirstArgError(action, args.d, 1)

\* validate_handv2_args(action, args, manifests): "" for None, else the error
validate_handv2_args(action, args, manifests) ==
    IF args.kind # "dict" THEN "params.args must be an object (dict)"
    ELSE IF action \notin manifests THEN ""
    ELSE LET sch   == ArgsSchema(action)
             d     == args.d
             miss  == sch.required \ DOMAIN d
             extra == DOMAIN d \ sch.props
         IN IF miss # {} THEN "missing required arg: " \o FirstKey(miss)
            ELSE IF ~sch.additional /\ extra # {} THEN "unknown args: " \o FirstKey(extra)
            ELSE FirstArgError(action, d, 1)

\* the defaults of the manifest of an action added to the missing keys of args
ApplyDefaults(name, d, index) ==
    IF name \notin index THEN d
    ELSE LET ks == {k \in ArgsSchema(name).props : k \notin DOMAIN d /\ PropSpec(name, k).hasDefault}
         IN [k \in DOMAIN d \cup ks |-> IF k \in DOMAIN d THEN d[k] ELSE PropSpec(name, k).default]

----------------------------------------------------------------------------
(* normalize_exec_response and sanitize_response *)

\* x or y
Or(x, y) == IF Truthy(x) THEN x ELSE y

\* a JSON body that is a string: the string is kept in the field text
RawStr(t) == [NonDict EXCEPT !.text = t]

\* str(out) of a value that is not a dict: the string itself, else its repr
Str(out) == IF out.text = Absent THEN "s:<repr>" ELSE out.text

\* normalize_exec_response(task, out)
normalize_exec_response(task, out) ==
    IF ~out.isdict
    THEN RespDict(PyFalse, "s:" \o task, "s:", "s:", Str(out), PyNone, Absent)
    ELSE LET ok  == IF out.ok = Absent THEN PyFalse ELSE out.ok
             act == IF out.action = Absent THEN "s:" \o task ELSE out.action
             so  == Or(out.stdout, "s:")
             se  == Or(out.stderr, "s:")
             tx  == Or(out.text, Or(so, "s:"))
             ec0 == IF out.exit_code = Absent
                    THEN (IF out.code = Absent THEN PyNone ELSE out.code)
                    ELSE out.exit_code
             ec  == IF ec0 = PyNone THEN (IF Truthy(ok) THEN "i:0" ELSE "i:1") ELSE ec0
         IN [out EXCEPT !.ok = ok, !.action = act, !.stdout = so, !.stderr = se,
                        !.text = tx, !.exit_code = ec]

MAX_KEEP == 800

\* "\n...[truncated]...\n"
Marker == <<"\n", ".", ".", ".", "[", "t", "r", "u", "n", "c", "a", "t", "e", "d", "]", ".", ".", ".", "\n">>

\* a stream of MAX_KEEP + 1 characters
LongText == "s:<801 x a>"

\* text[:MAX_KEEP] + marker of LongText
Truncated == "s:<800 x a>\n...[truncated]...\n"

\* the characters of the string a token names; a token not listed names a
\* short non-empty string
Chars(t) ==
    CASE t = "s:"          -> <<>>
      [] t = LongText      -> [i \in 1..(MAX_KEEP + 1) |-> "a"]
      [] t = "s:<800 x b>" -> [i \in 1..MAX_KEEP |-> "b"]
      [] t = "s:<900 x c>" -> [i \in 1..(MAX_KEEP + 100) |-> "c"]
      [] t = Truncated     -> [i \in 1..MAX_KEEP |-> "a"] \o Marker
      [] t = "s:<800 x c>\n...[truncated]...\n" -> [i \in 1..MAX_KEEP |-> "c"] \o Marker
      [] OTHER             -> <<"x">>

\* the token that names a truncated string
Tok(cs) == CHOOSE t \in {Truncated, "s:<800 x c>\n...[truncated]...\n"} : Chars(t) = cs

\* _truncate returning an over-long text as it is
_truncate_keepAll(t) ==
    IF Len(Chars(t)) = 0 THEN "s:" ELSE t

\* _truncate(text)
_truncate(t) ==
    IF Len(Chars(t)) = 0 THEN "s:"
    ELSE IF Len(Chars(t)) <= MAX_KEEP THEN t
    ELSE Tok(SubSeq(Chars(t), 1, MAX_KEEP) \o Marker)

\* needs_save and the local stdout, stderr, text of sanitize_response
Streams(task, out) ==
    LET so == Or(out.stdout, "s:")
        se == Or(out.stderr, "s:")
        tx == Or(out.text, "s:")
    IN [stdout |-> so, stderr |-> se, text |-> tx,
        needs_save |-> \/ task = "ssh: caddy_logs"
                       \/ \E t \in {so, se, tx} : Len(Chars(t)) > MAX_KEEP]

\* the parts list written to the artifact file, joined by blank lines; no
\* file is written when needs_save is false
Artifact(task, out) ==
    LET l == Streams(task, out) IN
    IF ~l.needs_save THEN <<>>
    ELSE (IF Truthy(l.stdout) THEN <<[header |-> "=== STDOUT ===", body |-> l.stdout]>> ELSE <<>>)
         \o (IF Truthy(l.stderr) THEN <<[header |-> "=== STDERR ===", body |-> l.stderr]>> ELSE <<>>)
         \o (IF Truthy(l.text) /\ l.text \notin {l.stdout, l.stderr}
             THEN <<[header |-> "=== TEXT ===", body |-> l.text]>> ELSE <<>>)

\* sanitize_response(task, out) for a dict whose streams are strings
sanitize_response(task, out) ==
    LET l == Streams(task, out) IN
    IF ~l.needs_save THEN out
    ELSE [out EXCEPT !.stdout = IF Truthy(l.stdout) THEN _truncate(l.stdout) ELSE out.stdout,
                     !.stderr = IF Truthy(l.stderr) THEN _truncate(l.stderr) ELSE out.stderr,
                     !.text   = IF Truthy(l.text) THEN _truncate(l.text) ELSE out.text,
                     !._saved_to = "s:artifacts/<ts>_<task>.log"]

\* the exception sanitize_response ends with, "" when it returns: len() of a
\* stream that is not a string raises TypeError
SanitizeError(task, out) ==
    IF \E t \in {out.stdout, out.stderr, out.text} : Truthy(t) /\ IsInt(t)
    THEN "object of type 'int' has no len()"
    ELSE ""

\* sanitize_response(task, normalize_exec_response(task, out_raw)): the value
\* returned, or the exception that ends the two calls
Respond(task, raw) ==
    LET n == normalize_exec_response(task, raw) IN
    IF SanitizeError(task, n) # ""
    THEN [k |-> "raise", v |-> NonDict, ex |-> SanitizeError(task, n)]
    ELSE [k |-> "return", v |-> sanitize_response(task, n), ex |-> ""]

----------------------------------------------------------------------------
(* Environments and idle values *)

\* the values RECOVERY_SSH_ACTIONS takes in the model
RecoverySets == {DefaultRecoveryActions, {"restart_n8n", "compose_restart"}}

Env(ad, rec, key, wr, allow) ==
    [allow_dangerous |-> ad, recovery |-> rec, n8n_key |-> key, n8n_write |-> wr, n8n_allow |-> allow]

DefaultEnv == Env(FALSE, DefaultRecoveryActions, FALSE, FALSE, {})

\* no pure function is under study
FxIdle == [fn |-> "none"]

NoOut == [k |-> "none", v |-> NonDict, ex |-> "", primary |-> 0, fallback |-> 0]

XrIdle == [called |-> FALSE, task |-> "", params |-> NoParams, recovery |-> {},
           po |-> "", fo |-> "", out |-> NoOut]

NoN8nOut == [k |-> "none", v |-> NonDict, ex |-> "", reqs |-> <<>>]

NrIdle == [called |-> FALSE, task |-> "", wid |-> "", wf |-> "", e |-> DefaultEnv, out |-> NoN8nOut]

NoReport == [printed |-> FALSE, ok |-> FALSE, exit_code |-> -1, status |-> -1]

NoEntry == [kind |-> "none", direct |-> NoParams, conditional |-> FALSE]

MainIdle ==
    /\ pc = "idle"
    /\ env = DefaultEnv
    /\ entry = NoEntry
    /\ hv2 = {}
    /\ plan = <<>>
    /\ acts = <<>>
    /\ idx = 0
    /\ results = <<>>
    /\ issue_found = FALSE
    /\ calls = <<>>
    /\ report = NoReport

mainVars == <<pc, env, entry, hv2, plan, acts, idx, results, issue_found, calls, report>>

----------------------------------------------------------------------------
(* SpecExec: call_agent_exec applied to every request and every outcome of *)
(* the two channels                                                        *)

ExecTasks == {"ssh: run", "ssh: healthz"}

ExecParams ==
    {NoParams,
     Params("", "check", NoArgs, ""),
     Params(" ", "check", NoArgs, ""),
     Params("compose_restart", "apply", NoArgs, "TOK"),
     Params("compose_ps", "check", ArgsDict("project_dir" :> "s:/opt/n8n"), ""),
     Params(" compose_ps ", "check", NoArgs, ""),
     Params("restart_n8n", "apply", NoArgs, "TOK"),
     Params("healthz", "check", NoArgs, "")}

InitExec == fx = FxIdle /\ xr = XrIdle /\ nr = NrIdle /\ MainIdle

ExecCall ==
    /\ ~xr.called
    /\ \E task \in ExecTasks, params \in ExecParams, rec \in RecoverySets,
          po \in PrimaryOutcomes, body \in Bodies, fo \in FallbackOutcomes, fbody \in Bodies :
          xr' = [called |-> TRUE, task |-> task, params |-> params, recovery |-> rec,
                 po |-> po, fo |-> fo,
                 out |-> call_agent_exec(task, params, [DefaultEnv EXCEPT !.recovery = rec],
                                         po, body, fo, fbody)]
    /\ UNCHANGED <<fx, nr, mainVars>>

NextExec == ExecCall

SpecExec == InitExec /\ [][NextExec]_vars

----------------------------------------------------------------------------
(* SpecN8n: call_n8n applied to every task, argument and configuration *)

N8nTasks ==
    {"n8n: self_test", "n8n: list_workflows", "n8n: executions_list",
     "n8n: workflows_get_dryrun", "n8n: get_workflow", "n8n: workflows_get",
     "n8n: workflows_update_dryrun", "n8n: workflows_update", "n8n: bogus"}

InitN8n == fx = FxIdle /\ xr = XrIdle /\ nr = NrIdle /\ MainIdle

N8nCall ==
    /\ ~nr.called
    /\ \E task \in N8nTasks, wid \in Wids \cup {""}, wf \in WorkflowArgs,
          key \in BOOLEAN, wr \in BOOLEAN, allow \in SUBSET Wids,
          h \in [Wids -> HttpOutcomes] :
          LET e == Env(FALSE, DefaultRecoveryActions, key, wr, allow) IN
          nr' = [called |-> TRUE, task |-> task, wid |-> wid, wf |-> wf, e |-> e,
                 out |-> call_n8n(task, wid, wf, e, h)]
    /\ UNCHANGED <<fx, xr, mainVars>>

NextN8n == N8nCall

SpecN8n == InitN8n /\ [][NextN8n]_vars

----------------------------------------------------------------------------
(* SpecNorm: normalize_exec_response applied to a raw response, then to    *)
(* its own result                                                          *)

\* the raw responses: every combination of the fields the function reads,
\* present or not, and three values that are not dicts
RawResponses ==
    {NonDict, RawStr("s:"), RawStr("s:pong")} \cup
    {[RespDict(ok, action, stdout, stderr, text, exit_code, Absent) EXCEPT !.code = code] :
        ok \in {Absent, PyTrue, PyFalse, PyNone},
        action \in {Absent, "s:compose_ps"},
        stdout \in {Absent, "s:", "s:OK"},
        stderr \in {Absent, "s:boom"},
        text \in {Absent, "s:", "s:T"},
        exit_code \in {Absent, PyNone, "i:0", "i:1"},
        code \in {Absent, "i:0", "i:1"}}

InitNorm ==
    /\ fx \in {[fn |-> "normalize", stage |-> 0, task |-> t, raw |-> r, once |-> NonDict, twice |-> NonDict] :
                  t \in {"ssh: run", "ssh: healthz"}, r \in RawResponses}
    /\ xr = XrIdle /\ nr = NrIdle /\ MainIdle

\* out_norm = normalize_exec_response(task, out_raw)
Normalize ==
    /\ fx.stage = 0
    /\ fx' = [fx EXCEPT !.stage = 1, !.once = normalize_exec_response(fx.task, fx.raw)]
    /\ UNCHANGED <<xr, nr, mainVars>>

\* the result normalised once more
Renormalize ==
    /\ fx.stage = 1
    /\ fx' = [fx EXCEPT !.stage = 2, !.twice = normalize_exec_response(fx.task, fx.once)]
    /\ UNCHANGED <<xr, nr, mainVars>>

NextNorm == Normalize \/ Renormalize

SpecNorm == InitNorm /\ [][NextNorm]_vars

----------------------------------------------------------------------------
(* SpecSan: sanitize_response applied to a result *)

\* the values of a stream: missing, empty, short, of MAX_KEEP characters, longer
StreamValues == {Absent, "s:", "s:OK", "s:<800 x b>", LongText, "s:<900 x c>"}

InitSan ==
    /\ fx \in {[fn |-> "sanitize", stage |-> 0, task |-> t,
                raw |-> RespDict(PyTrue, "s:" \o t, so, se, tx, "i:0", Absent),
                out |-> NonDict, parts |-> <<>>] :
                  t \in {"ssh: run", "ssh: caddy_logs"},
                  so \in StreamValues, se \in StreamValues, tx \in StreamValues}
    /\ xr = XrIdle /\ nr = NrIdle /\ MainIdle

\* out = sanitize_response(task, out_norm), with the artifact it wrote
Sanitize ==
    /\ fx.stage = 0
    /\ fx' = [fx EXCEPT !.stage = 1, !.out = sanitize_response(fx.task, fx.raw),
                        !.parts = Artifact(fx.task, fx.raw)]
    /\ UNCHANGED <<xr, nr, mainVars>>

SpecSan == InitSan /\ [][Sanitize]_vars

----------------------------------------------------------------------------
(* agent_brain.main: discovery, the direct "ssh: run" entry, plan          *)
(* validation and the dispatch loop                                        *)

\* the longest plan the planner returns in the model
MaxPlan == 2

\* one action of a plan: task and params (action, mode, args, confirm for
\* "ssh: run"; workflow_id and workflow for the n8n tasks)
PlanAct(task, action, mode, args, confirm) ==
    [task |-> task, action |-> action, mode |-> mode, args |-> args, confirm |-> confirm]

Legacy(task) == PlanAct(task, "", "", NoArgs, "")

Run(action, mode, args, confirm) == PlanAct("ssh: run", action, mode, args, confirm)

NoAct == PlanAct("", "", "", NoArgs, "")

\* the actions the planner puts into plans
PlanCandidates ==
    {Legacy("ssh: healthz"),
     Legacy("ssh: restart_n8n"),
     Legacy("ssh: caddy_logs"),
     Legacy("n8n: self_test"),
     Legacy("rm: -rf"),
     Run("", "check", NoArgs, ""),
     Run("healthz", "check", ArgsList, ""),
     Run("ssh: restart_n8n", "apply", NoArgs, "TOK"),
     Run("restart_n8n", "check", ArgsDict("x" :> "i:1"), ""),
     Run("compose_restart", "apply", ArgsDict("project_dir" :> "s:/opt/n8n"), "TOK"),
     Run("compose_restart", "check", NoArgs, ""),
     Run("caddy_logs", "check", NoArgs, ""),
     Run("healthz", "check", ArgsDict("confirm" :> "s:TOK"), "")}

\* the plans of at most MaxPlan actions
Plans == UNION {[1..n -> PlanCandidates] : n \in 0..MaxPlan}

\* the direct invocations _parse_direct_ssh_run yields (mode and args already
\* normalised by the parser)
DirectParams ==
    {Params("healthz", "check", NoArgs, ""),
     Params("restart_n8n", "check", NoArgs, ""),
     Params("restart_n8n", "apply", NoArgs, ""),
     Params("restart_n8n", "apply", NoArgs, "TOK"),
     Params("compose_restart", "apply", NoArgs, "TOK"),
     Params("compose_ps", "check", ArgsDict("confirm" :> "s:TOK"), ""),
     Params("compose_ps", "check", ArgsDict("project_dir" :> "i:1"), ""),
     Params("caddy_logs", "check", NoArgs, ""),
     Params("caddy_logs", "check", ArgsDict("lines" :> "i:500"), ""),
     Params("compose_logs", "check", NoArgs, ""),
     Params("compose_logs", "check", ArgsDict("tail" :> "i:1"), ""),
     Params("compose_logs", "check", ArgsDict("tail" :> "i:1" @@ "service" :> "s:5"), ""),
     Params("compose_logs", "check", ArgsDict("project_dir" :> "s:/opt/n8n" @@ "service" :> "s:5"), "")}

\* the manifest sets discovery ends with: refresh() or load_cached() or []
ManifestSets == {{}, {"restart_n8n", "compose_restart", "compose_ps", "compose_logs", "caddy_logs"}}

\* the module attribute handv2_index that validate_plan reads: main binds only
\* a local of that name, so the attribute exists when the embedding process
\* has set it
GlobalIndexes == {[bound |-> FALSE, keys |-> {}]} \cup {[bound |-> TRUE, keys |-> m] : m \in ManifestSets}

\* what the gateway and the fallback do in a run of main
MainPrimaryOutcomes == {"ok", "conn_error"}

MainBodies ==
    {RespDict(PyTrue, "s:ssh: run", "s:OK", "s:", "s:OK", "i:0", Absent),
     RespDict(PyFalse, "s:ssh: run", "s:", "s:boom", "s:boom", "i:1", Absent),
     RespDict(PyNone, Absent, "s:OK", Absent, Absent, Absent, Absent),
     RespDict(PyTrue, "s:ssh: run", "i:1", "s:", Absent, "i:0", Absent)}

MainFallbackOutcomes == {"ssh_exception", "json"}

\* the hardening pass of validate_plan on one action: "" when it passes
Hardening(a, g) ==
    IF a.task # "ssh: run" THEN ""
    ELSE IF a.args.kind = "dict" /\ "confirm" \in DOMAIN a.args.d
    THEN "confirm must be params.confirm (not inside params.args)"
    ELSE IF g.keys # {} /\ a.action # "" /\ a.action \notin g.keys
    THEN "unknown Hand v2 action for ssh: run: " \o a.action
    ELSE ""

\* the positions of a plan whose action fails the hardening pass
HardeningFailures(pl, g) == {i \in 1..Len(pl) : Hardening(pl[i], g) # ""}

\* the positions of a plan whose task is not in ALLOWED_TASKS
InvalidTasks(pl) == {i \in 1..Len(pl) : pl[i].task \notin ALLOWED_TASKS}

\* the least element of a non-empty set of positions: the one a for loop meets first
FirstOf(S) == CHOOSE i \in S : \A k \in S : i <= k

\* validate_plan(plan): "" when the plan is accepted, else the text of the
\* exception; the hardening pass runs over all actions before the other checks
validate_plan(pl, g) ==
    IF ~g.bound THEN "name 'handv2_index' is not defined"
    ELSE IF HardeningFailures(pl, g) # {}
    THEN Hardening(pl[FirstOf(HardeningFailures(pl, g))], g)
    ELSE IF Len(pl) = 0 THEN "Plan must contain non-empty 'actions' list."
    ELSE IF InvalidTasks(pl) # {}
    THEN "Action has invalid task: " \o pl[FirstOf(InvalidTasks(pl))].task
    ELSE ""

\* base_actions: the plan without "ssh: caddy_logs" when the request is conditional
RECURSIVE BaseActions(_, _)
BaseActions(pl, conditional) ==
    IF pl = <<>> THEN <<>>
    ELSE IF conditional /\ Head(pl).task = "ssh: caddy_logs"
         THEN BaseActions(Tail(pl), conditional)
         ELSE <<Head(pl)>> \o BaseActions(Tail(pl), conditional)

\* one request on a transport: the channel, the task and action sent, and the
\* plan action (or direct invocation) it was sent for
Call(ch, task, action, src) ==
    [ch |-> ch, task |-> task, action |-> action, args |-> NoArgs, src |-> src]

\* the requests an outcome of call_agent_exec stands for
ExecCalls(task, p, src, o) ==
    <<[Call("gateway", task, p.action, src) EXCEPT !.args = p.args]>> \o
    (IF o.fallback = 1 THEN <<[Call("ssh", task, p.action, src) EXCEPT !.args = p.args]>> ELSE <<>>)

\* the entries of the results list
ResponseEntry(task, src, resp) == [kind |-> "response", task |-> task, src |-> src, why |-> "", resp |-> resp]

SkippedEntry(task, src) == [kind |-> "skipped", task |-> task, src |-> src, why |-> "dangerous", resp |-> NonDict]

ErrorEntry(task, src, text) == [kind |-> "error", task |-> task, src |-> src, why |-> text, resp |-> NonDict]

\* an entry of the results list built in place for a rejected "ssh: run"
RejectEntry(task, src, msg) ==
    ResponseEntry("ssh: run", src, RespDict(PyFalse, "s:" \o task, "s:", "s:" \o msg, "s:" \o msg, "i:1", Absent))

\* the environment of a run of main
MainEnvs == {Env(ad, DefaultRecoveryActions, TRUE, FALSE, {}) : ad \in BOOLEAN}

Entries ==
    {[kind |-> "empty", direct |-> NoParams, conditional |-> FALSE]}
    \cup {[kind |-> "direct", direct |-> d, conditional |-> FALSE] : d \in DirectParams}
    \cup {[kind |-> "planned", direct |-> NoParams, conditional |-> c] : c \in BOOLEAN}

Init ==
    /\ fx = FxIdle
    /\ xr = XrIdle
    /\ nr = NrIdle
    /\ pc = "start"
    /\ env \in MainEnvs
    /\ entry \in Entries
    /\ hv2 = {}
    /\ plan = <<>>
    /\ acts = <<>>
    /\ idx = 0
    /\ results = <<>>
    /\ issue_found = FALSE
    /\ calls = <<>>
    /\ report = NoReport

Exit(printed, ok, code, status) ==
    /\ pc' = "exit"
    /\ report' = [printed |-> printed, ok |-> ok, exit_code |-> code, status |-> status]

\* refresh_handv2_manifests(...) or load_handv2_manifests_cache() or []: one
\* list_actions request, then the manifest set the session works with
Discover ==
    /\ pc = "start"
    /\ \E m \in ManifestSets : hv2' = m
    /\ calls' = Append(calls, Call("gateway", "ssh: run", "list_actions",
                                   Run("list_actions", "check", NoArgs, "")))
    /\ pc' = IF entry.kind = "direct" THEN "direct" ELSE "task"
    /\ UNCHANGED <<fx, xr, nr, env, entry, plan, acts, idx, results, issue_found, report>>

\* int(resp.get("exit_code", 0) or 0)
IntOf(t) == CASE t = "i:1" -> 1 [] t = "i:500" -> 500 [] t = "i:501" -> 501 [] OTHER -> 0

DirectSrc == Run(entry.direct.action, entry.direct.mode, entry.direct.args, entry.direct.confirm)

\* the args the direct entry validates: a fresh dict when the parsed one is empty
DirectArgs ==
    ArgsDict(ApplyDefaults(entry.direct.action, entry.direct.args.d, hv2))

\* direct entry: validate_handv2_args returned an error
DirectReject ==
    /\ pc = "direct"
    /\ LET err == validate_handv2_args(entry.direct.action, DirectArgs, hv2) IN
       /\ err # ""
       /\ results' = <<RejectEntry(entry.direct.action, DirectSrc, err)>>
    /\ Exit(TRUE, FALSE, 1, 1)
    /\ UNCHANGED <<fx, xr, nr, env, entry, hv2, plan, acts, idx, issue_found, calls>>

\* direct entry: the invocation is sent with call_agent_exec and reported
DirectRun ==
    /\ pc = "direct"
    /\ validate_handv2_args(entry.direct.action, DirectArgs, hv2) = ""
    /\ \E po \in MainPrimaryOutcomes, body \in MainBodies, fo \in MainFallbackOutcomes, fbody \in MainBodies :
          LET sent == IF DOMAIN entry.direct.args.d = {} THEN entry.direct
                      ELSE [entry.direct EXCEPT !.args = DirectArgs]
              o    == call_agent_exec("ssh: run", sent, env, po, body, fo, fbody)
              resp == normalize_exec_response("ssh: run", o.v)
          IN /\ calls' = calls \o ExecCalls("ssh: run", sent, DirectSrc, o)
             /\ results' = <<ResponseEntry("ssh: run", DirectSrc, resp)>>
             /\ Exit(TRUE, Truthy(resp.ok), IntOf(resp.exit_code), IF Truthy(resp.ok) THEN 0 ELSE 1)
    /\ UNCHANGED <<fx, xr, nr, env, entry, hv2, plan, acts, idx, issue_found>>

\* an empty task text
EmptyTask ==
    /\ pc = "task"
    /\ entry.kind = "empty"
    /\ Exit(FALSE, FALSE, 2, 2)
    /\ UNCHANGED <<fx, xr, nr, env, entry, hv2, plan, acts, idx, results, issue_found, calls>>

\* ANTHROPIC_API_KEY is not set: no plan is made
NoApiKey ==
    /\ pc = "task"
    /\ entry.kind = "planned"
    /\ Exit(FALSE, FALSE, 1, 1)
    /\ UNCHANGED <<fx, xr, nr, env, entry, hv2, plan, acts, idx, results, issue_found, calls>>

\* the planner returned a plan that validate_plan rejects
PlanInvalid ==
    /\ pc = "task"
    /\ entry.kind = "planned"
    /\ \E p \in Plans, g \in GlobalIndexes :
          /\ validate_plan(p, g) # ""
          /\ plan' = p
    /\ Exit(FALSE, FALSE, 1, 1)
    /\ UNCHANGED <<fx, xr, nr, env, entry, hv2, acts, idx, results, issue_found, calls>>

\* the plan is valid but asks for more information and the request is not conditional
NeedMoreInfo ==
    /\ pc = "task"
    /\ entry.kind = "planned"
    /\ ~entry.conditional
    /\ \E p \in Plans, g \in GlobalIndexes :
          /\ validate_plan(p, g) = ""
          /\ plan' = p
    /\ Exit(FALSE, TRUE, 0, 0)
    /\ UNCHANGED <<fx, xr, nr, env, entry, hv2, acts, idx, results, issue_found, calls>>

\* the plan is valid: the dispatch loop starts on base_actions
PlanAccepted ==
    /\ pc = "task"
    /\ entry.kind = "planned"
    /\ \E p \in Plans, g \in GlobalIndexes :
          /\ validate_plan(p, g) = ""
          /\ plan' = p
          /\ acts' = BaseActions(p, entry.conditional)
    /\ pc' = "loop"
    /\ idx' = 0
    /\ UNCHANGED <<fx, xr, nr, env, entry, hv2, results, issue_found, calls, report>>

----------------------------------------------------------------------------
(* The dispatch loop: one action of the model per route of an iteration *)

Current == acts[idx + 1]

InLoop == pc = "loop" /\ idx < Len(acts)

\* str(params.get('mode') or 'check').strip().lower()
ModeOf(a) == IF a.mode = "" THEN "check" ELSE a.mode

\* hv2_action: the action name without its "ssh:" prefix
Hv2Action(a) == IF StartsWithSsh(a.action) THEN AfterSshPrefix(a.action) ELSE a.action

\* use_hv2 = bool(args), or the action has a manifest
UseHv2(a, index) == DOMAIN a.args.d # {} \/ (index # {} /\ a.action \in index)

\* resolved_task = action if action.startswith('ssh:') else f"ssh: {action}"
ResolvedTask(a) == IF StartsWithSsh(a.action) THEN a.action ELSE WithSshPrefix(a.action)

\* the checks at the head of the "ssh: run" branch: "" when they pass
RunReject(a) ==
    IF a.action = "" THEN "params.action required for ssh: run"
    ELSE IF ModeOf(a) \notin {"check", "plan", "apply"} THEN "invalid params.mode (use check|plan|apply)"
    ELSE IF a.args.kind # "dict" THEN "params.args must be an object"
    ELSE ""

\* the route an iteration takes
Route(a, index) ==
    IF a.task # "ssh: run" THEN "legacy"
    ELSE IF RunReject(a) # "" THEN "reject"
    ELSE IF UseHv2(a, index) THEN "hv2"
    ELSE IF ResolvedTask(a) \notin ALLOWED_TASKS THEN "unsupported"
    ELSE "legacy"

\* task and params as they reach the gate: a resolved "ssh: run" has params = {}
GateTask(a) == IF a.task = "ssh: run" THEN ResolvedTask(a) ELSE a.task

GateParams(a) == IF a.task = "ssh: run" THEN NoAct ELSE a

\* "Gate dangerous tasks": TRUE when the task may be dispatched
GatePasses(task, params, allow_dangerous) ==
    IF task \in DANGEROUS_TASKS /\ ~allow_dangerous
    THEN IF task = "ssh: run"
         THEN ModeOf(params) = "apply" /\ params.confirm # ""
         ELSE FALSE
    ELSE TRUE

\* "ssh: run" without action, with an invalid mode or with args that are no dict
StepReject ==
    /\ InLoop
    /\ Route(Current, hv2) = "reject"
    /\ results' = Append(results, RejectEntry("ssh: run", Current, RunReject(Current)))
    /\ issue_found' = TRUE
    /\ idx' = idx + 1
    /\ UNCHANGED <<fx, xr, nr, pc, env, entry, hv2, plan, acts, calls, report>>

\* the request of the Hand v2 route and what call_agent_exec returns for it
Hv2Sent(a, index) ==
    Params(Hv2Action(a), ModeOf(a), ArgsDict(ApplyDefaults(Hv2Action(a), a.args.d, index)), a.confirm)

\* "ssh: run" sent as a Hand v2 action
StepHv2 ==
    /\ InLoop
    /\ Route(Current, hv2) = "hv2"
    /\ \E po \in MainPrimaryOutcomes, body \in MainBodies, fo \in MainFallbackOutcomes, fbody \in MainBodies :
          LET a    == Current
              sent == Hv2Sent(a, hv2)
              o    == call_agent_exec("ssh: run", sent, env, po, body, fo, fbody)
              r    == Respond("ssh: run", o.v)
          IN /\ r.k = "return"
             /\ calls' = calls \o ExecCalls("ssh: run", sent, a, o)
             /\ results' = Append(results, ResponseEntry("ssh: run", a, r.v))
             /\ issue_found' = (issue_found \/ ~Truthy(r.v.ok))
    /\ idx' = idx + 1
    /\ UNCHANGED <<fx, xr, nr, pc, env, entry, hv2, plan, acts, report>>

\* the Hand v2 route when sanitize_response raises: the calls are outside any
\* try block, the exception leaves main and the process ends with a traceback
StepHv2Crash ==
    /\ InLoop
    /\ Route(Current, hv2) = "hv2"
    /\ \E po \in MainPrimaryOutcomes, body \in MainBodies, fo \in MainFallbackOutcomes, fbody \in MainBodies :
          LET a    == Current
              sent == Hv2Sent(a, hv2)
              o    == call_agent_exec("ssh: run", sent, env, po, body, fo, fbody)
          IN /\ Respond("ssh: run", o.v).k = "raise"
             /\ calls' = calls \o ExecCalls("ssh: run", sent, a, o)
    /\ Exit(FALSE, FALSE, 1, 1)
    /\ UNCHANGED <<fx, xr, nr, env, entry, hv2, plan, acts, idx, results, issue_found>>

\* "ssh: run" of an action that resolves to no allowed legacy task
StepUnsupported ==
    /\ InLoop
    /\ Route(Current, hv2) = "unsupported"
    /\ results' = Append(results,
            RejectEntry(ResolvedTask(Current), Current, "unsupported ssh: run action: " \o Current.action))
    /\ issue_found' = TRUE
    /\ idx' = idx + 1
    /\ UNCHANGED <<fx, xr, nr, pc, env, entry, hv2, plan, acts, calls, report>>

\* a legacy task stopped by the gate
StepSkipDangerous ==
    /\ InLoop
    /\ Route(Current, hv2) = "legacy"
    /\ ~GatePasses(GateTask(Current), GateParams(Current), env.allow_dangerous)
    /\ results' = Append(results, SkippedEntry(GateTask(Current), Current))
    /\ issue_found' = TRUE
    /\ idx' = idx + 1
    /\ UNCHANGED <<fx, xr, nr, pc, env, entry, hv2, plan, acts, calls, report>>

\* a legacy "ssh:" task sent to the gateway
StepLegacy ==
    /\ InLoop
    /\ Route(Current, hv2) = "legacy"
    /\ GatePasses(GateTask(Current), GateParams(Current), env.allow_dangerous)
    /\ GateTask(Current) \notin {"n8n: self_test"}
    /\ \E po \in MainPrimaryOutcomes, body \in MainBodies :
          LET task == GateTask(Current)
              o    == call_agent_exec(task, NoParams, env, po, body, "ssh_exception", NonDict)
              r    == Respond(task, o.v)
          IN /\ calls' = calls \o ExecCalls(task, NoParams, Current, o)
             /\ IF r.k = "raise"
                THEN /\ results' = Append(results, ErrorEntry(task, Current, r.ex))
                     /\ issue_found' = TRUE
                ELSE /\ results' = Append(results, ResponseEntry(task, Current, r.v))
                     /\ issue_found' = (issue_found \/ ~Truthy(r.v.ok))
    /\ idx' = idx + 1
    /\ UNCHANGED <<fx, xr, nr, pc, env, entry, hv2, plan, acts, report>>

RECURSIVE N8nCalls(_, _, _)
N8nCalls(task, src, reqs) ==
    IF reqs = <<>> THEN <<>>
    ELSE <<Call("n8n", task, Head(reqs).method, src)>> \o N8nCalls(task, src, Tail(reqs))

\* an "n8n:" task run by call_n8n; an exception of the call becomes an error entry
StepN8n ==
    /\ InLoop
    /\ Route(Current, hv2) = "legacy"
    /\ GatePasses(GateTask(Current), GateParams(Current), env.allow_dangerous)
    /\ GateTask(Current) \in {"n8n: self_test"}
    /\ \E h \in [Wids -> HttpOutcomes] :
          LET task == GateTask(Current)
              o    == call_n8n(task, "", "absent", env, h)
          IN /\ calls' = calls \o N8nCalls(task, Current, o.reqs)
             /\ IF o.k = "raise"
                THEN /\ results' = Append(results, ErrorEntry(task, Current, o.ex))
                     /\ issue_found' = TRUE
                ELSE LET out == Respond(task, o.v).v IN
                     /\ results' = Append(results, ResponseEntry(task, Current, out))
                     /\ issue_found' = (issue_found \/ ~Truthy(out.ok))
    /\ idx' = idx + 1
    /\ UNCHANGED <<fx, xr, nr, pc, env, entry, hv2, plan, acts, report>>

CaddySrc == Legacy("ssh: caddy_logs")

\* after the loop: the conditional request found an issue and fetches caddy_logs
CondLogs ==
    /\ pc = "loop" /\ idx = Len(acts)
    /\ entry.conditional /\ issue_found
    /\ \E po \in MainPrimaryOutcomes, body \in MainBodies :
          LET o   == call_agent_exec("ssh: caddy_logs", NoParams, env, po, body, "ssh_exception", NonDict)
              r   == Respond("ssh: caddy_logs", o.v)
          IN /\ calls' = calls \o ExecCalls("ssh: caddy_logs", NoParams, CaddySrc, o)
             /\ results' = Append(results,
                    IF r.k = "raise" THEN ErrorEntry("ssh: caddy_logs", CaddySrc, r.ex)
                    ELSE ResponseEntry("ssh: caddy_logs", CaddySrc, r.v))
    /\ pc' = "report"
    /\ UNCHANGED <<fx, xr, nr, env, entry, hv2, plan, acts, idx, issue_found, report>>

\* after the loop: no diagnostic is due
NoCondLogs ==
    /\ pc = "loop" /\ idx = Len(acts)
    /\ ~(entry.conditional /\ issue_found)
    /\ pc' = "report"
    /\ UNCHANGED <<fx, xr, nr, env, entry, hv2, plan, acts, idx, results, issue_found, calls, report>>

\* an entry that makes overall_ok false
EntryFails(it) ==
    \/ it.kind = "error" /\ it.why # ""
    \/ it.kind = "skipped"
    \/ it.kind = "response" /\ it.resp.isdict /\ it.resp.ok = PyFalse

\* the aggregation of the results into the report
Report ==
    /\ pc = "report"
    /\ LET overall_ok == \A i \in 1..Len(results) : ~EntryFails(results[i]) IN
       Exit(TRUE, overall_ok, IF overall_ok THEN 0 ELSE 1, IF overall_ok THEN 0 ELSE 1)
    /\ UNCHANGED <<fx, xr, nr, env, entry, hv2, plan, acts, idx, results, issue_found, calls>>

Next ==
    \/ Discover
    \/ DirectReject
    \/ DirectRun
    \/ EmptyTask
    \/ NoApiKey
    \/ PlanInvalid
    \/ NeedMoreInfo
    \/ PlanAccepted
    \/ StepReject
    \/ StepHv2
    \/ StepHv2Crash
    \/ StepUnsupported
    \/ StepSkipDangerous
    \/ StepLegacy
    \/ StepN8n
    \/ CondLogs
    \/ NoCondLogs
    \/ Report

Spec == Init /\ [][Next]_vars

\* the runs of main on a direct "ssh: run" invocation: no plan is made
InitDirect == Init /\ entry.kind = "direct"

SpecDirect == InitDirect /\ [][Discover \/ DirectReject \/ DirectRun]_vars

----------------------------------------------------------------------------
(* Self-discovery over several sessions: refresh_handv2_manifests, the     *)
(* cache file and the manifest set a session works with                    *)

\* the number of sessions followed
MaxSessions == 3

\* the cache file: missing, unparsable, or the JSON list of the manifests ms
CacheFile(kind, ms) == [kind |-> kind, ms |-> ms]

\* load_handv2_manifests_cache(): the list in the file, None otherwise
load_handv2_manifests_cache(cache) ==
    IF cache.kind = "list" THEN [none |-> FALSE, ms |-> cache.ms] ELSE [none |-> TRUE, ms |-> {}]

\* refresh_handv2_manifests: resp is the normalized answer to list_actions
\* (kind "manifests" when it carries the artifact named manifests with a list
\* value ms), after is the file a write leaves behind; gives the value
\* returned and the cache file
refresh_handv2_manifests(resp, cache, after) ==
    IF resp.kind # "manifests" \/ resp.ms = {}
    THEN [ret |-> [none |-> TRUE, ms |-> {}], cache |-> cache]
    ELSE [ret |-> [none |-> FALSE, ms |-> resp.ms], cache |-> after]

InitCat ==
    /\ fx \in {[fn |-> "catalog", n |-> 0, cache |-> c, resp |-> [kind |-> "none", ms |-> {}],
                used |-> {}, last |-> [none |-> TRUE, ms |-> {}]] :
                  c \in {CacheFile("missing", {}), CacheFile("list", {"compose_ps"})}}
    /\ xr = XrIdle /\ nr = NrIdle /\ MainIdle

\* one session: refresh(...) or load_cached() or []; write_text either leaves
\* the new list in the file or fails, leaving the file as it was or cut short;
\* last remembers the list of the latest answer that carried one
Session ==
    /\ fx.n < MaxSessions
    /\ \E resp \in {[kind |-> "call_failed", ms |-> {}], [kind |-> "not_a_dict", ms |-> {}],
                    [kind |-> "no_artifact", ms |-> {}]}
                   \cup {[kind |-> "manifests", ms |-> m] :
                            m \in {{}, {"compose_ps"}, {"compose_ps", "caddy_logs"}}} :
       \E after \in {CacheFile("list", resp.ms), fx.cache, CacheFile("unparsable", {})} :
          LET r == refresh_handv2_manifests(resp, fx.cache, after)
              c == load_handv2_manifests_cache(r.cache)
          IN fx' = [fx EXCEPT !.n = fx.n + 1, !.resp = resp, !.cache = r.cache,
                              !.used = IF ~r.ret.none /\ r.ret.ms # {} THEN r.ret.ms
                                       ELSE IF ~c.none /\ c.ms # {} THEN c.ms ELSE {},
                              !.last = IF resp.kind = "manifests"
                                       THEN [none |-> FALSE, ms |-> resp.ms] ELSE fx.last]
    /\ UNCHANGED <<xr, nr, mainVars>>

SpecCat == InitCat /\ [][Session]_vars

----------------------------------------------------------------------------
(* agent_runner.main: the wrapper that runs agent_brain.py as a child       *)
(* process and reports on it                                               *)

\* _detect_apply(task_text, brain_report): the text names mode=apply or
\* confirm=, or a result of the report has params.mode = apply
_detect_apply(task, rep) ==
    task.modeApply \/ task.confirm \/ (rep.isdict /\ rep.applyResult)

\* the task text (empty, or with or without the words mode=apply and
\* confirm=), the exit code of the child process, the report found in its
\* output (its ok field and whether a result has params.mode = apply) and
\* DISABLE_POST_APPLY_HEALTHCHECK=1
InitRunner ==
    /\ fx \in {[fn |-> "runner", stage |-> 0, task |-> t, code |-> c, rep |-> r, disabled |-> d,
                ran |-> FALSE, ok |-> FALSE, exit |-> -1, did_apply |-> FALSE, healthcheck |-> FALSE] :
                  t \in {[empty |-> e, modeApply |-> m, confirm |-> k] :
                            e \in BOOLEAN, m \in BOOLEAN, k \in BOOLEAN} \
                        {x \in [empty : {TRUE}, modeApply : BOOLEAN, confirm : BOOLEAN] :
                            x.modeApply \/ x.confirm},
                  c \in {0, 1, 2},
                  r \in {[isdict |-> FALSE, ok |-> Absent, applyResult |-> FALSE]} \cup
                        {[isdict |-> TRUE, ok |-> o, applyResult |-> a] :
                            o \in {PyTrue, PyFalse, PyNone, Absent}, a \in BOOLEAN},
                  d \in BOOLEAN}
    /\ xr = XrIdle /\ nr = NrIdle /\ MainIdle

\* agent_runner.main
RunnerMain ==
    /\ fx.fn = "runner" /\ fx.stage = 0
    /\ IF fx.task.empty
       THEN fx' = [fx EXCEPT !.stage = 1, !.exit = 2]
       ELSE LET brain_ok  == fx.code = 0
                ok_final  == IF fx.rep.isdict /\ IsBool(fx.rep.ok) THEN fx.rep.ok = PyTrue ELSE brain_ok
                exit_code == IF fx.rep.isdict /\ IsBool(fx.rep.ok) /\ ~ok_final /\ fx.code = 0
                             THEN 1 ELSE fx.code
            IN fx' = [fx EXCEPT !.stage = 1, !.ran = TRUE, !.ok = ok_final, !.exit = exit_code,
                                !.did_apply = brain_ok /\ _detect_apply(fx.task, fx.rep),
                                !.healthcheck = TRUE]
    /\ UNCHANGED <<xr, nr, mainVars>>

SpecRunner == InitRunner /\ [][RunnerMain]_vars

----------------------------------------------------------------------------
(* validate_handv2_args applied once to an action, its args and the known  *)
(* manifests                                                               *)

\* the args a caller passes: a list, or a dict of up to two keys whose values
\* are integers, booleans or strings
ValArgs ==
    LET keys == {"project_dir", "tail", "service", "lines", "follow", "x"}
        vals == {"i:0", "i:1", "i:500", "i:501", PyTrue, PyFalse, "s:5", "s:/opt/n8n"}
    IN {ArgsList} \cup
       {ArgsDict(d) : d \in UNION {[ks -> vals] : ks \in {S \in SUBSET keys : Cardinality(S) <= 2}}}

InitVal ==
    /\ fx \in {[fn |-> "validate", stage |-> 0, action |-> a, args |-> g, manifests |-> m, err |-> ""] :
                  a \in {"healthz", "compose_ps", "compose_logs", "caddy_logs"},
                  g \in ValArgs, m \in ManifestSets}
    /\ xr = XrIdle /\ nr = NrIdle /\ MainIdle

\* err = validate_handv2_args(action, args, manifests)
Validate ==
    /\ fx.stage = 0
    /\ fx' = [fx EXCEPT !.stage = 1, !.err = validate_handv2_args(fx.action, fx.args, fx.manifests)]
    /\ UNCHANGED <<xr, nr, mainVars>>

SpecVal == InitVal /\ [][Validate]_vars

----------------------------------------------------------------------------
(* Properties of the safety gate (Spec) *)

\* a plan action or direct invocation that names a dangerous action
IsDangerousAct(a) ==
    \/ a.task \in DANGEROUS_TASKS
    \/ a.task = "ssh: run" /\ DangerousName(a.action)

\* mode apply with a non-empty params.confirm
HasConfirmedApply(a) == ModeOf(a) = "apply" /\ a.confirm # ""

\* a request sent to the gateway or to the fallback channel for the action a
SentFor(a) ==
    \E i \in 1..Len(calls) : calls[i].ch \in {"gateway", "ssh"} /\ calls[i].src = a

InDispatch == entry.kind = "planned" /\ pc \in {"loop", "report", "exit"}

LoopReported == entry.kind = "planned" /\ pc = "exit" /\ report.printed

ConfirmInArgs(a) == a.args.kind = "dict" /\ "confirm" \in DOMAIN a.args.d

\* C4: on both entry paths a request whose arguments mapping contains the key
\* "confirm" is rejected before any transport call is made for it.
Claim_C4 ==
    \A i \in 1..Len(calls) : ~ConfirmInArgs(calls[i].src)

\* C5: a direct invocation of a dangerous action without ALLOW_DANGEROUS=1 and
\* without a confirm token in apply mode is not sent to the gateway or to the
\* fallback channel.
Claim_C5 ==
    (entry.kind = "direct" /\ IsDangerousAct(DirectSrc)
     /\ ~env.allow_dangerous /\ ~HasConfirmedApply(DirectSrc)) =>
        ~SentFor(DirectSrc)

----------------------------------------------------------------------------
(* Properties of call_n8n (SpecN8n) *)

IsUpdate == nr.called /\ nr.task = "n8n: workflows_update"

\* some request of the call is not a GET
IssuesWrite == \E i \in 1..Len(nr.out.reqs) : nr.out.reqs[i].method # "GET"

WriteDisabledMsg == "s:WRITE disabled (set N8N_ALLOW_WRITE=1)"

NotAllowListedMsg == "s:workflow_id not in allowlist: " \o nr.wid

\* C6: "n8n: workflows_update" issues the PUT only if N8N_ALLOW_WRITE is set
\* and the workflow id is a member of N8N_ALLOW_WORKFLOW_IDS; with an empty
\* allow-list no write request is issued.
Claim_C6 ==
    (IsUpdate /\ IssuesWrite) => (nr.e.n8n_write /\ nr.wid \in nr.e.n8n_allow)

\* the update is blocked: the call reached the update branch (the API key is
\* set) and returned ok=false without sending a request
UpdateBlocked ==
    /\ IsUpdate /\ nr.e.n8n_key
    /\ nr.out.k = "return" /\ nr.out.reqs = <<>> /\ nr.out.v.ok = PyFalse

\* C7: a blocked update has ok=false and exit_code=1, its reason is
\* 'WRITE disabled' whenever the write flag is off (whatever the workflow id),
\* 'workflow_id not in allowlist' when the flag is on and the given id is not
\* allow-listed, and neither reason is produced for the other cause.
Claim_C7 ==
    UpdateBlocked =>
        /\ nr.out.v.exit_code = "i:1"
        /\ (~nr.e.n8n_write => nr.out.v.text = WriteDisabledMsg)
        /\ ((nr.e.n8n_write /\ nr.wid # "" /\ nr.wid \notin nr.e.n8n_allow) =>
                nr.out.v.text = NotAllowListedMsg)
        /\ (nr.out.v.text = WriteDisabledMsg => ~nr.e.n8n_write)
        /\ (nr.out.v.text = NotAllowListedMsg => (nr.e.n8n_write /\ nr.wid \notin nr.e.n8n_allow))

----------------------------------------------------------------------------
(* Properties of call_agent_exec (SpecExec) *)

PrimaryFailed == xr.called /\ xr.po # "ok"

\* the action name, as the except block normalises it, is in RECOVERY_SSH_ACTIONS
ActionInRecoveryList == xr.params.isdict /\ Strip(xr.params.action) \in xr.recovery

\* C8: the SSH fallback is invoked only when the primary call failed and the
\* action is in RECOVERY_SSH_ACTIONS; after a failure the decision depends on
\* the request alone, not on the kind of failure; never after a success.
Thm_C8 ==
    xr.called =>
        /\ (xr.out.fallback # 0 => (PrimaryFailed /\ ActionInRecoveryList))
        /\ (PrimaryFailed =>
                (xr.out.fallback = 1 <=>
                    (xr.task = "ssh: run" /\ ActionInRecoveryList)))
        /\ (xr.po = "ok" => xr.out.fallback = 0)

\* a timeout of the gateway handed over to the fallback channel
Wit_C8 == xr.called /\ xr.po = "timeout" /\ xr.out.fallback = 1

\* C9: an "ssh: run" of an allow-listed action whose primary call fails makes
\* one primary request and one fallback request, and the value returned carries
\* _fallback = "ssh" whatever the fallback did.
Thm_C9 ==
    (PrimaryFailed /\ xr.task = "ssh: run" /\ ActionInRecoveryList) =>
        /\ xr.out.primary = 1
        /\ xr.out.fallback = 1
        /\ xr.out.k = "return"
        /\ xr.out.v.isdict
        /\ xr.out.v._fallback = "s:ssh"

\* the fallback answered with a JSON object of its own and the marker was added
Wit_C9 ==
    /\ PrimaryFailed /\ xr.out.fallback = 1 /\ xr.fo = "json"
    /\ xr.out.v.ok = PyTrue /\ xr.out.v._fallback = "s:ssh"

\* C10: call_agent_exec always returns a value; when the primary call failed
\* and no fallback was made the value has ok=false, exit_code=1 and the failure
\* message in both stderr and text.
Thm_C10 ==
    xr.called =>
        /\ xr.out.k = "return"
        /\ ((PrimaryFailed /\ xr.out.fallback = 0) =>
                /\ xr.out.v.isdict
                /\ xr.out.v.ok = PyFalse
                /\ xr.out.v.exit_code = "i:1"
                /\ xr.out.v.stderr = FailMsg(xr.po)
                /\ xr.out.v.text = xr.out.v.stderr
                /\ Truthy(xr.out.v.text))

\* a malformed JSON body of a request that has no fallback
Wit_C10 ==
    /\ xr.called /\ xr.po = "malformed_json" /\ xr.out.fallback = 0
    /\ xr.out.k = "return" /\ xr.out.v.text = FailMsg("malformed_json")

----------------------------------------------------------------------------
(* Properties of normalize_exec_response (SpecNorm) *)

\* the tokens of the Python ints
IsIntToken(v) == v \in {"i:0", "i:1"}

\* C11: the result of normalize_exec_response has an integer exit_code that
\* is 0 if and only if its ok is true.
Claim_C11 ==
    fx.stage >= 1 =>
        /\ IsIntToken(fx.once.exit_code)
        /\ (fx.once.exit_code = "i:0" <=> fx.once.ok = PyTrue)

\* C12: the text of the result of normalize_exec_response is non-empty.
Claim_C12 ==
    fx.stage >= 1 => Truthy(fx.once.text)

\* C13: normalize_exec_response is idempotent: normalising its result again
\* yields an equal result.
Claim_C13 ==
    fx.stage = 2 => fx.twice = fx.once

----------------------------------------------------------------------------
(* Properties of sanitize_response (SpecSan) *)

\* some stream of the result under study is longer than MAX_KEEP characters
Oversized ==
    /\ fx.fn = "sanitize" /\ fx.stage = 1
    /\ \E t \in {fx.raw.stdout, fx.raw.stderr, fx.raw.text} : Len(Chars(t)) > MAX_KEEP

\* the stream kept in the report for the original stream t
KeptAs(t, kept) ==
    IF Len(Chars(t)) > MAX_KEEP
    THEN Chars(kept) = SubSeq(Chars(t), 1, MAX_KEEP) \o Marker
    ELSE kept = t

\* the body of the section of the artifact with the given header, "s:" if none
Section(header) ==
    IF \E i \in 1..Len(fx.parts) : fx.parts[i].header = header
    THEN fx.parts[CHOOSE i \in 1..Len(fx.parts) : fx.parts[i].header = header].body
    ELSE "s:"

----------------------------------------------------------------------------
(* Properties of the dispatch loop and its report (Spec) *)

\* an error entry, a skipped entry, or a response with ok=false
FailedEntry(it) ==
    \/ it.kind \in {"error", "skipped"}
    \/ it.kind = "response" /\ it.resp.ok = PyFalse

LoopEnded == entry.kind = "planned" /\ pc = "exit" /\ acts # <<>>

CaddyCalls ==
    {i \in 1..Len(calls) :
        calls[i].task = "ssh: caddy_logs" \/ calls[i].action \in {"caddy_logs", "ssh: caddy_logs"}}

\* an entry of the initial pass that ended not-ok
NotOk(it) == it.kind # "response" \/ ~Truthy(it.resp.ok)

DirectEnded == entry.kind = "direct" /\ pc = "exit" /\ entry.direct.action \in hv2

\* the required fields the direct invocation does not supply
Omitted == ArgsSchema(entry.direct.action).required \ DOMAIN entry.direct.args.d

\* the omitted required fields for which the manifest declares no default
OmittedNoDefault == {X \in Omitted : ~PropSpec(entry.direct.action, X).hasDefault}

\* the direct invocation ended in the validation failure msg and no request
\* was made for it
RejectedWith(msg) ==
    /\ results = <<RejectEntry(entry.direct.action, DirectSrc, msg)>>
    /\ report.status = 1
    /\ \A i \in 1..Len(calls) : calls[i].src # DirectSrc

\* C18 as stated: a direct invocation that omits a required field X ends in a
\* validation failure whose message names X, and the action is not sent to a
\* transport.
Claim_C18 ==
    DirectEnded => \A X \in Omitted : RejectedWith("missing required arg: " \o X)

\* C18, amended: a direct invocation that omits a required field for which
\* the manifest declares no default ends in a validation failure whose message
\* names the first such field in the order of the required list, and the
\* action is not sent to a transport.
Thm_C18 ==
    (DirectEnded /\ OmittedNoDefault # {}) =>
        RejectedWith("missing required arg: " \o FirstKey(OmittedNoDefault))

Wit_C18 ==
    /\ DirectEnded
    /\ entry.direct.action = "compose_logs"
    /\ OmittedNoDefault = {"tail", "service"}
    /\ RejectedWith("missing required arg: tail")

----------------------------------------------------------------------------
(* Properties of validate_handv2_args (SpecVal) *)

\* validate_handv2_args has been applied to args that give the value v to the
\* property k of an action whose manifest is known
Checked(k, v) ==
    /\ fx.fn = "validate" /\ fx.stage = 1
    /\ fx.action \in fx.manifests
    /\ fx.args.kind = "dict"
    /\ k \in DOMAIN fx.args.d /\ fx.args.d[k] = v

\* the properties of type integer of the action under study that declare a
\* minimum and a maximum
BoundedInts ==
    {k \in ArgsSchema(fx.action).props :
        LET p == PropSpec(fx.action, k) IN p.type = "integer" /\ p.hasMin /\ p.hasMax}

\* the integer values: int, and not bool
GenuineInts == {"i:0", "i:1", "i:500", "i:501"}

\* C19: for a property of type integer with declared minimum and maximum,
\* validate_handv2_args rejects an integer below the minimum or above the
\* maximum, with the message of the bound it breaks when the value is the
\* only argument, and raises no objection to the minimum and the maximum
\* themselves: the interval is inclusive at both ends.
Thm_C19 ==
    \A k \in BoundedInts : \A v \in GenuineInts :
        Checked(k, v) =>
            LET p    == PropSpec(fx.action, k)
                only == DOMAIN fx.args.d = {k}
            IN /\ IntVal(v) < p.min =>
                    /\ fx.err # ""
                    /\ only => fx.err = "arg '" \o k \o "' must be >= " \o IntStr(p.min)
               /\ IntVal(v) > p.max =>
                    /\ fx.err # ""
                    /\ only => fx.err = "arg '" \o k \o "' must be <= " \o IntStr(p.max)
               /\ IntVal(v) \in {p.min, p.max} =>
                    /\ fx.err \notin {"arg '" \o k \o "' must be integer",
                                      "arg '" \o k \o "' must be >= " \o IntStr(p.min),
                                      "arg '" \o k \o "' must be <= " \o IntStr(p.max)}
                    /\ only => fx.err = ""

\* lines=500, the maximum, is accepted together with a valid follow flag
Wit_C19 ==
    /\ Checked("lines", "i:500")
    /\ fx.action = "caddy_logs"
    /\ "follow" \in DOMAIN fx.args.d /\ fx.args.d["follow"] = PyTrue
    /\ fx.err = ""

\* C20: for a property of type integer, validate_handv2_args rejects a value
\* that is a boolean and a value that is a string; only an integer value
\* passes the type check.
Claim_C20 ==
    \A k \in ArgsSchema(fx.action).props :
        \A v \in {PyTrue, PyFalse, "s:5", "s:/opt/n8n"} :
            (Checked(k, v) /\ PropSpec(fx.action, k).type = "integer") => fx.err # ""

\* C21: for an action name that has no manifest in the manifest set (an empty
\* set included) validate_handv2_args returns no error, whatever the supplied
\* arguments are.
Claim_C21 ==
    (fx.fn = "validate" /\ fx.stage = 1 /\ fx.action \notin fx.manifests) => fx.err = ""

----------------------------------------------------------------------------
(* Properties of the defaults of a manifest *)

\* the properties of the manifest of a direct invocation that declare a default
Defaulted ==
    {k \in ArgsSchema(entry.direct.action).props : PropSpec(entry.direct.action, k).hasDefault}

\* the requests made for the direct invocation
DirectRequests == {i \in 1..Len(calls) : calls[i].src = DirectSrc}

\* C22: the defaults of the schema are applied to the arguments before the
\* pass/fail check and the transport sees the defaulted mapping: in every
\* request made for a direct invocation each property with a declared default
\* is present, and a supplied value is sent as supplied.
Claim_C22 ==
    DirectEnded =>
        \A i \in DirectRequests :
            /\ Defaulted \subseteq DOMAIN calls[i].args.d
            /\ \A k \in DOMAIN entry.direct.args.d :
                  k \in DOMAIN calls[i].args.d /\ calls[i].args.d[k] = entry.direct.args.d[k]

----------------------------------------------------------------------------
(* Properties of the stages of the dispatch loop (Spec) *)

InputErrorRun ==
    /\ entry.kind = "planned" /\ pc = "exit"
    /\ Len(plan) >= 2
    /\ InvalidTasks(plan) # {}

\* C25: an input error in one action of a multi-action plan marks only that
\* action as failed in the report, and all other actions of the plan are still
\* executed: a report is printed and each action with an allowed task has its
\* entry in the results.
Claim_C25 ==
    InputErrorRun =>
        /\ report.printed
        /\ \A i \in (1..Len(plan)) \ InvalidTasks(plan) :
              plan[i].task # "ssh: caddy_logs" => \E j \in 1..Len(results) : results[j].src = plan[i]

----------------------------------------------------------------------------
(* Properties of the requests of call_n8n (SpecN8n) *)

\* C29: no task handled by call_n8n other than "n8n: workflows_update" issues
\* a request that is not a GET, and "n8n: workflows_update_dryrun" issues no
\* request at all, whatever N8N_ALLOW_WRITE and the allow-list are.
Thm_C29 ==
    (nr.called /\ nr.task # "n8n: workflows_update") =>
        /\ \A i \in 1..Len(nr.out.reqs) : nr.out.reqs[i].method = "GET"
        /\ nr.task = "n8n: workflows_update_dryrun" => nr.out.reqs = <<>>

\* with writes enabled, list_workflows reads the two allow-listed workflows
Wit_C29 ==
    /\ nr.called /\ nr.task = "n8n: list_workflows"
    /\ nr.e.n8n_write /\ nr.e.n8n_allow = Wids
    /\ Len(nr.out.reqs) = 2
    /\ nr.out.reqs[2].method = "GET"

----------------------------------------------------------------------------
(* Properties of the self-discovery (SpecCat) *)

\* C24: a session works with the refreshed set when the refresh succeeded,
\* otherwise with the cached set, otherwise with the empty set; a failed
\* refresh leaves the cache file as it is, so that after any sequence of
\* refresh attempts the cache holds the manifests of the most recent
\* successful refresh.
Claim_C24 ==
    (fx.fn = "catalog" /\ fx.n > 0) =>
        /\ fx.resp.kind = "manifests" => fx.used = fx.resp.ms
        /\ ~fx.last.none => fx.cache = CacheFile("list", fx.last.ms)

----------------------------------------------------------------------------
(* Properties of agent_runner.main (SpecRunner) *)

RunnerDone == fx.fn = "runner" /\ fx.stage = 1

\* C27: agent_runner.main returns 2 without running the brain when the task
\* text is empty; otherwise its exit code is 0 exactly when the ok it reports
\* is true, for every exit code of the brain and every ok field of its report.
Claim_C27 ==
    RunnerDone =>
        IF fx.task.empty THEN fx.exit = 2 /\ ~fx.ran
        ELSE fx.exit = 0 <=> fx.ok

\* C30: agent_runner.main runs the remote post-apply healthcheck only when the
\* brain run succeeded and was detected as an apply, and never when
\* DISABLE_POST_APPLY_HEALTHCHECK=1 or when the task was not an apply.
Claim_C30 ==
    (RunnerDone /\ fx.healthcheck) =>
        /\ fx.code = 0
        /\ _detect_apply(fx.task, fx.rep)
        /\ ~fx.disabled

====
